---- MODULE Spec2Model ----
(***************************************************************************)
(* tstate-machine: the transition engine of StateMachine (transitTo and    *)
(* _transitTo), its per-instance store StateMachineInnerStore (current     *)
(* state, initial snapshot, enter/leave callback lists) and the query      *)
(* surface, as a state machine.                                            *)
(*                                                                         *)
(* transitTo is synchronous, but it calls user callbacks, and a callback   *)
(* may call back into the machine.  A call that passes validation is       *)
(* therefore a frame on a call stack; the steps of the frame are the       *)
(* places where control passes to or returns from a callback.              *)
(***************************************************************************)
EXTENDS Integers, Sequences, FiniteSets, TLC

VARIABLES
    machine,        \* the class of the instances: which states are declared
    insts,          \* the instances that have been constructed
    props,          \* props[i]: the object this.props of instance i refers to
    initialState,   \* initialState[i]: the object $initialState of i's store
    heap,           \* heap[o]: the content of property object o
    currentState,   \* currentState[i]: $store.currentState
    transitioning,  \* transitioning[i]: the re-entrancy flag
    onEnterCbs,     \* onEnterCbs[i][s]: the callbacks registered for entering s
    onLeaveCbs,     \* onLeaveCbs[i][s]: the callbacks registered for leaving s
    handles,        \* the deregistration functions handed out so far
    stack,          \* the transitTo calls in flight, innermost last
    calls,          \* the callback invocations of the current top-level call
    last,           \* the last operation and what it returned or threw
    nRegs,          \* how many callbacks have been registered
    firstEntry,     \* history: the first state each instance entered, and
                    \* the props it had there
    logging,        \* logging[i]: this.logging
    given,          \* history: the opts.logging each constructor was given
    console,        \* what the last call of transitTo gave to console.error
    twin,           \* the caller of two machines: the operation it is giving
                    \* to both, and what the first machine answered
    statesByMachineStore
                    \* StateMachineStore.statesByMachineStore: the StatesStore
                    \* of each machine type that has one

vars == <<machine, insts, props, initialState, heap, currentState, transitioning,
          onEnterCbs, onLeaveCbs, handles, stack, calls, last, nRegs, firstEntry,
          logging, given, console, twin, statesByMachineStore>>

(***************************************************************************)
(* Bounds of the model.                                                    *)
(***************************************************************************)
MaxRegs == 2        \* callbacks registered in one run
MaxDepth == 2       \* transitTo calls in flight at once
MaxHooks == 3       \* callbacks registered in one run of the callback lists

(***************************************************************************)
(* Property values.  A property bag maps keys to values; a value is a      *)
(* scalar or a nested object of scalars.                                   *)
(***************************************************************************)
NoFields == [k \in {} |-> ""]

Scalar(v) == [kind |-> "scalar", val |-> v, fields |-> NoFields]

Object(f) == [kind |-> "object", val |-> "", fields |-> f]

EmptyProps == [k \in {} |-> Scalar("")]

INITIAL == "initial"

InvalidTransition == "InvalidTransition"

StateNotRegistered == "StateNotRegistered"

(***************************************************************************)
(* The classes under analysis.  "Machine" is the class of the test suite,  *)
(* "Traffic" the class of the example; "Probe" is a class that uses what   *)
(* the decorator and the types allow and the other two do not: an overlay  *)
(* key that the initial props leave out, a state that permits itself and   *)
(* 'initial', a parent that is not declared, and a cycle of parents.       *)
(* "Revisit" is a class with a state that permits itself and can be        *)
(* entered after a state that adds a key.                                  *)
(***************************************************************************)
DeclaredStates(m) ==
    CASE m = "Machine" -> {"mainState", "requestState", "doneState",
                           "successState", "errorState"}
      [] m = "Traffic" -> {"Red", "Orange", "Green"}
      [] m = "Probe"   -> {"A", "B", "orphan", "loopX", "loopY"}
      [] m = "Revisit" -> {"A", "B"}

\* what @StateMachine.extend(parentState, to) records for each state field
Metadata(m) ==
    CASE m = "Machine" ->
           [mainState    |-> [parentState |-> INITIAL, to |-> <<"requestState">>],
            requestState |-> [parentState |-> "mainState",
                              to |-> <<"successState", "errorState">>],
            doneState    |-> [parentState |-> "mainState", to |-> <<>>],
            successState |-> [parentState |-> "doneState", to |-> <<"mainState">>],
            errorState   |-> [parentState |-> "doneState", to |-> <<"mainState">>]]
      [] m = "Traffic" ->
           [Red    |-> [parentState |-> INITIAL, to |-> <<"Green">>],
            Orange |-> [parentState |-> INITIAL, to |-> <<"Green", "Red">>],
            Green  |-> [parentState |-> INITIAL, to |-> <<"Orange">>]]
      [] m = "Probe" ->
           [A      |-> [parentState |-> INITIAL,
                        to |-> <<"A", "B", INITIAL, "orphan", "loopX">>],
            B      |-> [parentState |-> INITIAL, to |-> <<"A">>],
            orphan |-> [parentState |-> "ghost", to |-> <<>>],
            loopX  |-> [parentState |-> "loopY", to |-> <<>>],
            loopY  |-> [parentState |-> "loopX", to |-> <<>>]]
      [] m = "Revisit" ->
           [A |-> [parentState |-> INITIAL, to |-> <<"A">>],
            B |-> [parentState |-> INITIAL, to |-> <<"A">>]]

\* the value of each state field: the partial props of the state
StateFields(m) ==
    CASE m = "Machine" ->
           [mainState    |-> EmptyProps,
            requestState |-> [text |-> Scalar("request")],
            doneState    |-> [text |-> Scalar("done"),
                              alert |-> Object([visible |-> "true"])],
            successState |-> [alert |-> Object([text |-> "success"])],
            errorState   |-> [alert |-> Object([text |-> "error"])]]
      [] m = "Traffic" ->
           [Red    |-> [message |-> Scalar("STOP")],
            Orange |-> [message |-> Scalar("CAUTION")],
            Green  |-> [message |-> Scalar("GO"), safe |-> Scalar("true")]]
      [] m = "Probe" ->
           [A      |-> [note |-> Scalar("a"), alert |-> Object([visible |-> "true"])],
            B      |-> [text |-> Scalar("b")],
            orphan |-> EmptyProps,
            loopX  |-> EmptyProps,
            loopY  |-> EmptyProps]
      [] m = "Revisit" ->
           [A |-> [text |-> Scalar("a")],
            B |-> [mark |-> Scalar("b")]]

\* the options each class passes to super(opts); none passes logging
CtorOpts(m) ==
    CASE m = "Machine" ->
           [initialTransitions |-> <<"mainState">>, logging |-> "undefined",
            props |-> [text |-> Scalar("do"),
                       alert |-> Object([text |-> "alert", visible |-> "false"])]]
      [] m = "Traffic" ->
           [initialTransitions |-> <<"Green">>, logging |-> "undefined",
            props |-> [message |-> Scalar("OFF"), safe |-> Scalar("false")]]
      [] m = "Probe" ->
           [initialTransitions |-> <<"A", "B">>, logging |-> "undefined",
            props |-> [text |-> Scalar("do"), alert |-> Object([text |-> "alert"])]]
      [] m = "Revisit" ->
           [initialTransitions |-> <<"A", "B">>, logging |-> "undefined",
            props |-> [text |-> Scalar("do")]]

\* members every instance has besides its state fields
OwnMembers == {"props"}

\* the names the callers of the model pass as state names
Names(m) == DeclaredStates(m) \cup {INITIAL, "foobar"} \cup OwnMembers

\* the names a callback is registered for
HookNames(m) ==
    CASE m = "Machine" -> {"mainState"}
      [] m = "Traffic" -> {INITIAL, "Green"}
      [] m = "Probe"   -> {"B"}
      [] m = "Revisit" -> {"A"}

\* the callback functions of the callers, and the extra arguments of transitTo
Callbacks == {"f", "g"}

ArgLists == {<<>>, <<"x", "y">>}

Includes(seq, x) == \E n \in 1..Len(seq) : seq[n] = x

(***************************************************************************)
(* utils/merge and the metadata registry.                                  *)
(***************************************************************************)
MergeFields(target, source) ==
    [k \in DOMAIN target \cup DOMAIN source |->
        IF k \in DOMAIN source THEN source[k] ELSE target[k]]

\* merge(target, source): every key of source is written into target; a
\* nested object is merged key by key, anything else replaces the value
merge(target, source) ==
    [k \in DOMAIN target \cup DOMAIN source |->
        IF k \notin DOMAIN source THEN target[k]
        ELSE IF source[k].kind = "object" /\ k \in DOMAIN target
                /\ target[k].kind = "object"
             THEN Object(MergeFields(target[k].fields, source[k].fields))
             ELSE source[k]]

\* cloneDeep(value): a structural copy; the caller stores it in a new object
cloneDeep(value) == [k \in DOMAIN value |-> value[k]]

\* StateMachineMetadata.getByName finds a declaration
HasMetadata(m, stateName) == stateName \in DeclaredStates(m)

getMetadataByName(m, stateName) == Metadata(m)[stateName]

\* this[name] is truthy: a state field holds an object, so does this.props
HasField(m, name) == name \in DeclaredStates(m) \cup OwnMembers

\* this[name] for a state field
Field(m, name) == StateFields(m)[name]

(***************************************************************************)
(* StateMachineInnerStore.                                                 *)
(***************************************************************************)
isInitialState(i) == currentState[i] = "initial"

\* Array.prototype.indexOf, 0-based, -1 when absent
IndexOf(list, cb) ==
    IF Includes(list, cb)
    THEN (CHOOSE n \in 1..Len(list) :
             list[n] = cb /\ \A j \in 1..(n - 1) : list[j] # cb) - 1
    ELSE -1

\* Array.prototype.splice(start, 1): a negative start counts from the end
SpliceOne(list, start) ==
    LET len  == Len(list)
        from == IF start < 0
                THEN (IF len + start < 0 THEN 0 ELSE len + start)
                ELSE (IF start > len THEN len ELSE start)
    IN  IF from >= len THEN list
        ELSE [n \in 1..(len - 1) |-> IF n <= from THEN list[n] ELSE list[n + 1]]

\* the function registerEnterCallback / registerLeaveCallback returns
DropCallback(list, cb) == SpliceOne(list, IndexOf(list, cb))

(***************************************************************************)
(* The chain of states of _transitTo.                                      *)
(***************************************************************************)
RECURSIVE WalkParents(_, _, _, _)
\* the while loop over parentStateName; more rounds than there are declared
\* states means a parent repeats, and the loop never ends
WalkParents(m, parentStateName, stateChain, rounds) ==
    IF parentStateName = "initial"
    THEN [status |-> "ok", chain |-> stateChain]
    ELSE IF ~HasMetadata(m, parentStateName)
    THEN [status |-> "TypeError", chain |-> stateChain]
    ELSE IF rounds = 0
    THEN [status |-> "loops", chain |-> stateChain]
    ELSE WalkParents(m, getMetadataByName(m, parentStateName).parentState,
                     <<Field(m, parentStateName)>> \o stateChain, rounds - 1)

\* "Make chain of states"
StateChain(m, targetState, stateToApply) ==
    IF targetState = "initial"
    THEN [status |-> "ok", chain |-> <<stateToApply>>]
    ELSE IF ~HasMetadata(m, targetState)
    THEN [status |-> "TypeError", chain |-> <<stateToApply>>]
    ELSE WalkParents(m, getMetadataByName(m, targetState).parentState,
                     <<stateToApply>>, Cardinality(DeclaredStates(m)))

RECURSIVE ApplyChain(_, _)
\* "Apply states chain": the while loop that shifts and merges
ApplyChain(target, stateChain) ==
    IF stateChain = <<>> THEN target
    ELSE ApplyChain(merge(target, Head(stateChain)), Tail(stateChain))

(***************************************************************************)
(* Construction.  Before new Machine() there is no instance.  The          *)
(* constructor keeps the caller's props object as this.props and stores a  *)
(* deep copy of it in the store.                                           *)
(***************************************************************************)
NoOp == [op |-> "none", inst |-> 0, name |-> "", out |-> ""]

\* the caller of two machines has no operation under way
Idle ==
    [phase |-> "idle", op |-> [op |-> "none", name |-> "", cb |-> "", on |-> ""],
     out |-> "", calls |-> <<>>]

NoCallbacks(m) == [s \in Names(m) |-> <<>>]

\* mutant: the snapshot is taken of nothing
rememberNothing(h, snapshot, propsObj) ==
    [h EXCEPT ![snapshot] = EmptyProps]

\* rememberInitialState(props): $initialState is a new object
rememberInitialState(h, snapshot, propsObj) ==
    [h EXCEPT ![snapshot] = cloneDeep(h[propsObj])]

\* new Map(): no machine type has a StatesStore; nothing under src/ calls
\* StateMachineStore.defineState
NoStores == [t \in {} |-> [s \in {} |-> [parentState |-> "", to |-> <<>>]]]

\* the class is loaded, nothing is constructed
InitOf(types) ==
    /\ machine \in types
    /\ insts = {}
    /\ props = [i \in {} |-> 0]
    /\ initialState = [i \in {} |-> 0]
    /\ heap = [o \in {} |-> EmptyProps]
    /\ currentState = [i \in {} |-> ""]
    /\ transitioning = [i \in {} |-> FALSE]
    /\ onEnterCbs = [i \in {} |-> NoCallbacks(machine)]
    /\ onLeaveCbs = [i \in {} |-> NoCallbacks(machine)]
    /\ handles = {}
    /\ stack = <<>>
    /\ calls = <<>>
    /\ last = NoOp
    /\ nRegs = 0
    /\ firstEntry = [i \in {} |-> [state |-> "", props |-> EmptyProps]]
    /\ logging = [i \in {} |-> FALSE]
    /\ given = [i \in {} |-> "undefined"]
    /\ console = <<>>
    /\ twin = Idle
    /\ statesByMachineStore = NoStores

\* the test suite's class and the probe class
Init == InitOf({"Machine", "Probe"})

\* the example's class
InitTraffic == InitOf({"Traffic"})

\* what a caller passes to the constructor: the options of the class, or
\* the same with no initial transition
CtorInputs(m) ==
    {CtorOpts(m), [CtorOpts(m) EXCEPT !.initialTransitions = <<>>]}

\* the same options with each value a caller can give for logging
LoggingInputs(m) ==
    {[CtorOpts(m) EXCEPT !.logging = l] : l \in {"undefined", "false", "true"}}

\* opts.logging === undefined ? false : true
loggingOption(opts) == IF opts.logging = "undefined" THEN FALSE ELSE TRUE

\* mutant: the list is not looked at
EmptyTransitionsAccepted(opts) == FALSE

\* opts.initialTransitions.length === 0
EmptyTransitions(opts) == Len(opts.initialTransitions) = 0

\* a function over the instances, with instance i added
WithInstance(f, i, v) == [j \in insts \cup {i} |-> IF j = i THEN v ELSE f[j]]

\* new Machine(): throws on an empty list of initial transitions;
\* otherwise instance i exists, with the caller's object (2i-1) as
\* this.props and a new object (2i) as the snapshot
constructor(i, opts) ==
    /\ i \notin insts /\ stack = <<>>
    /\ IF EmptyTransitions(opts)
       THEN /\ last' = [op |-> "new", inst |-> i, name |-> "", out |-> "Error"]
            /\ UNCHANGED <<insts, props, initialState, heap, currentState,
                           transitioning, onEnterCbs, onLeaveCbs, firstEntry,
                           logging, given>>
       ELSE /\ last' = [op |-> "new", inst |-> i, name |-> "", out |-> ""]
            /\ insts' = insts \cup {i}
            /\ props' = WithInstance(props, i, 2 * i - 1)
            /\ initialState' = WithInstance(initialState, i, 2 * i)
            /\ heap' = rememberInitialState(
                          [o \in DOMAIN heap \cup {2 * i - 1, 2 * i} |->
                              IF o = 2 * i - 1 THEN opts.props
                              ELSE IF o = 2 * i THEN EmptyProps ELSE heap[o]],
                          2 * i, 2 * i - 1)
            /\ currentState' = WithInstance(currentState, i, "initial")
            /\ transitioning' = WithInstance(transitioning, i, FALSE)
            /\ onEnterCbs' = WithInstance(onEnterCbs, i, NoCallbacks(machine))
            /\ onLeaveCbs' = WithInstance(onLeaveCbs, i, NoCallbacks(machine))
            /\ firstEntry' = WithInstance(firstEntry, i,
                                          [state |-> "", props |-> EmptyProps])
            /\ logging' = WithInstance(logging, i, loggingOption(opts))
            /\ given' = WithInstance(given, i, opts.logging)
    /\ UNCHANGED <<machine, statesByMachineStore, twin, handles, stack, calls, nRegs, console>>

\* new Machine(shared): a constructor that passes on a props object the
\* caller made, here the one instance j was given; the object becomes
\* this.props of instance i too, and a new object (2i) is the snapshot
constructorSharing(i, j, opts) ==
    /\ i \notin insts /\ j \in insts /\ stack = <<>>
    /\ ~EmptyTransitions(opts)
    /\ last' = [op |-> "new", inst |-> i, name |-> "", out |-> ""]
    /\ insts' = insts \cup {i}
    /\ props' = WithInstance(props, i, props[j])
    /\ initialState' = WithInstance(initialState, i, 2 * i)
    /\ heap' = rememberInitialState(
                  [o \in DOMAIN heap \cup {2 * i} |->
                      IF o = 2 * i THEN EmptyProps ELSE heap[o]],
                  2 * i, props[j])
    /\ currentState' = WithInstance(currentState, i, "initial")
    /\ transitioning' = WithInstance(transitioning, i, FALSE)
    /\ onEnterCbs' = WithInstance(onEnterCbs, i, NoCallbacks(machine))
    /\ onLeaveCbs' = WithInstance(onLeaveCbs, i, NoCallbacks(machine))
    /\ firstEntry' = WithInstance(firstEntry, i,
                                  [state |-> "", props |-> EmptyProps])
    /\ logging' = WithInstance(logging, i, loggingOption(opts))
    /\ given' = WithInstance(given, i, opts.logging)
    /\ UNCHANGED <<machine, statesByMachineStore, twin, handles, stack, calls, nRegs, console>>

initialTransitions(i) == CtorOpts(machine).initialTransitions

(***************************************************************************)
(* Who may call.  The engine is single-threaded: an operation is called    *)
(* either when no transitTo is in flight or by the callback that the       *)
(* innermost transitTo is running.                                         *)
(***************************************************************************)
Top == stack[Len(stack)]

CanCall == IF stack = <<>> THEN TRUE ELSE Top.inCb

Pop == SubSeq(stack, 1, Len(stack) - 1)

SetTop(frame) == [stack EXCEPT ![Len(stack)] = frame]

(***************************************************************************)
(* onEnter, onLeave and the functions they return.                         *)
(***************************************************************************)
\* registerEnterCallback(stateName, cb)
registerEnterCallback(i, stateName, cb) ==
    /\ onEnterCbs' = [onEnterCbs EXCEPT ![i][stateName] = Append(@, cb)]
    /\ handles' = handles \cup
           {[inst |-> i, phase |-> "enter", state |-> stateName, cb |-> cb]}

\* registerLeaveCallback(stateName, cb)
registerLeaveCallback(i, stateName, cb) ==
    /\ onLeaveCbs' = [onLeaveCbs EXCEPT ![i][stateName] = Append(@, cb)]
    /\ handles' = handles \cup
           {[inst |-> i, phase |-> "leave", state |-> stateName, cb |-> cb]}

\* onEnter, called while fewer than bound callbacks have been registered
onEnterWithin(bound, i, stateName, cb) ==
    /\ i \in insts /\ CanCall /\ nRegs < bound
    /\ registerEnterCallback(i, stateName, cb)
    /\ nRegs' = nRegs + 1
    /\ last' = [op |-> "onEnter", inst |-> i, name |-> stateName, out |-> ""]
    /\ UNCHANGED <<machine, statesByMachineStore, twin, firstEntry, logging, given, console, insts, props,
                   initialState, heap, currentState,
                   transitioning, onLeaveCbs, stack, calls>>

onEnter(i, stateName, cb) == onEnterWithin(MaxRegs, i, stateName, cb)

\* onLeave, called while fewer than bound callbacks have been registered
onLeaveWithin(bound, i, stateName, cb) ==
    /\ i \in insts /\ CanCall /\ nRegs < bound
    /\ registerLeaveCallback(i, stateName, cb)
    /\ nRegs' = nRegs + 1
    /\ last' = [op |-> "onLeave", inst |-> i, name |-> stateName, out |-> ""]
    /\ UNCHANGED <<machine, statesByMachineStore, twin, firstEntry, logging, given, console, insts, props,
                   initialState, heap, currentState,
                   transitioning, onEnterCbs, stack, calls>>

onLeave(i, stateName, cb) == onLeaveWithin(MaxRegs, i, stateName, cb)

\* calling a function that onEnter or onLeave returned
Deregister(h) ==
    /\ h \in handles /\ CanCall
    /\ IF h.phase = "enter"
       THEN /\ onEnterCbs' = [onEnterCbs EXCEPT
                                 ![h.inst][h.state] = DropCallback(@, h.cb)]
            /\ UNCHANGED onLeaveCbs
       ELSE /\ onLeaveCbs' = [onLeaveCbs EXCEPT
                                 ![h.inst][h.state] = DropCallback(@, h.cb)]
            /\ UNCHANGED onEnterCbs
    /\ last' = [op |-> "drop", inst |-> h.inst, name |-> h.state, out |-> ""]
    /\ UNCHANGED <<machine, statesByMachineStore, twin, firstEntry, logging, given, console, insts, props,
                   initialState, heap, currentState,
                   transitioning, handles, stack, calls, nRegs>>

(***************************************************************************)
(* transitTo and _transitTo, up to the first callback.                     *)
(***************************************************************************)
RecursiveTransition == "Calling transitTo from an onEnter/onLeave callback is not supported"

NoError == "undefined"

\* mutant: the guard never fires
RejectedNever(i) == FALSE

\* if (this.transitioning) throw
Rejected(i) == transitioning[i]

\* "Check target state is registered": stateToApply is truthy
Registered(i, targetState) ==
    IF targetState # "initial" THEN HasField(machine, targetState) ELSE TRUE

\* the state to apply: the state field, or the snapshot for 'initial'
StateToApply(i, targetState) ==
    IF targetState # "initial" THEN Field(machine, targetState)
    ELSE heap[initialState[i]]

\* mutant: the check of the permitted next states is skipped
PermittedUnchecked(i, targetState) == TRUE

\* "Check transition is possible"; reading .to of a missing declaration throws
Permitted(i, targetState) ==
    IF isInitialState(i)
    THEN Includes(initialTransitions(i), targetState)
    ELSE Includes(getMetadataByName(machine, currentState[i]).to, targetState)

\* what _transitTo does before it calls the leave callbacks
Outcome(i, targetState) ==
    IF ~Registered(i, targetState) THEN StateNotRegistered
    ELSE IF ~isInitialState(i) /\ ~HasMetadata(machine, currentState[i])
    THEN "TypeError"
    ELSE IF ~Permitted(i, targetState) THEN InvalidTransition
    ELSE StateChain(machine, targetState, EmptyProps).status

\* logError(msg): console.error(msg) if this.logging
logError(i, msg) == IF logging[i] THEN <<msg>> ELSE <<>>

\* NEXT_STATE_RESTRICTED(currentState, stateName)
NEXT_STATE_RESTRICTED(current, stateName) ==
    <<"Navigate to", stateName, "restricted by 'to' argument of state", current>>

\* what _transitTo gives to console.error
logged(i, targetState) ==
    LET outcome == Outcome(i, targetState)
    IN  CASE outcome = StateNotRegistered ->
                logError(i, <<"No state", targetState, "for navigation registered">>)
          [] outcome = InvalidTransition ->
                logError(i, NEXT_STATE_RESTRICTED(currentState[i], targetState))
          [] OTHER -> <<>>

\* the calls record restarts with every top-level operation that can call back
CallsAtEntry == IF stack = <<>> THEN <<>> ELSE calls

\* throw new Error(...): the call ends before anything is touched
ThrowRecursive(i, targetState) ==
    /\ last' = [op |-> "transitTo", inst |-> i, name |-> targetState,
                out |-> RecursiveTransition]
    /\ UNCHANGED <<heap, currentState, transitioning, stack, calls>>

\* mutant: the current state is assigned before the checks
EarlyReturnAfterAssign(i, targetState, error) ==
    /\ last' = [op |-> "transitTo", inst |-> i, name |-> targetState,
                out |-> error]
    /\ transitioning' = [transitioning EXCEPT ![i] = FALSE]
    /\ calls' = CallsAtEntry
    /\ currentState' = [currentState EXCEPT ![i] = targetState]
    /\ UNCHANGED <<heap, stack>>

\* mutant: the flag is cleared only on the path that reaches the end of
\* _transitTo
EarlyReturnFlagLeft(i, targetState, error) ==
    /\ last' = [op |-> "transitTo", inst |-> i, name |-> targetState,
                out |-> error]
    /\ transitioning' = [transitioning EXCEPT ![i] = TRUE]
    /\ calls' = CallsAtEntry
    /\ UNCHANGED <<heap, currentState, stack>>

\* mutant: the leave callbacks of the current state are called before the
\* checks
EarlyReturnAfterLeave(i, targetState, error) ==
    /\ last' = [op |-> "transitTo", inst |-> i, name |-> targetState,
                out |-> error]
    /\ transitioning' = [transitioning EXCEPT ![i] = FALSE]
    /\ calls' = CallsAtEntry \o
                 [n \in 1..Len(onLeaveCbs[i][currentState[i]]) |->
                     [inst |-> i, phase |-> "leave",
                      cb |-> onLeaveCbs[i][currentState[i]][n],
                      args |-> <<targetState>>, state |-> currentState[i],
                      props |-> heap[props[i]]]]
    /\ UNCHANGED <<heap, currentState, stack>>

\* mutant: return this.logError(...) when logging is on
EarlyReturnLogged(i, targetState, error) ==
    /\ last' = [op |-> "transitTo", inst |-> i, name |-> targetState,
                out |-> IF logging[i] THEN "undefined" ELSE error]
    /\ transitioning' = [transitioning EXCEPT ![i] = FALSE]
    /\ calls' = CallsAtEntry
    /\ UNCHANGED <<heap, currentState, stack>>

\* return TransitionError.X from _transitTo, then this.transitioning = false
EarlyReturn(i, targetState, error) ==
    /\ last' = [op |-> "transitTo", inst |-> i, name |-> targetState,
                out |-> error]
    /\ transitioning' = [transitioning EXCEPT ![i] = FALSE]
    /\ calls' = CallsAtEntry
    /\ UNCHANGED <<heap, currentState, stack>>

\* mutant: the chain of states is made after the leave callbacks were called
ThrowInsideAfterLeave(i, targetState, error) ==
    /\ last' = [op |-> "transitTo", inst |-> i, name |-> targetState,
                out |-> error]
    /\ transitioning' = [transitioning EXCEPT ![i] = TRUE]
    /\ calls' = CallsAtEntry \o
                 [n \in 1..Len(onLeaveCbs[i][currentState[i]]) |->
                     [inst |-> i, phase |-> "leave",
                      cb |-> onLeaveCbs[i][currentState[i]][n],
                      args |-> <<targetState>>, state |-> currentState[i],
                      props |-> heap[props[i]]]]
    /\ UNCHANGED <<heap, currentState, stack>>

\* an exception inside _transitTo: the line after the call is not reached
ThrowInside(i, targetState, error) ==
    /\ last' = [op |-> "transitTo", inst |-> i, name |-> targetState,
                out |-> error]
    /\ transitioning' = [transitioning EXCEPT ![i] = TRUE]
    /\ calls' = CallsAtEntry
    /\ UNCHANGED <<heap, currentState, stack>>

\* the frame of a call that goes on to callLeaveCbs, or that never leaves
\* the loop over the parents; len is the length forEach reads when it
\* starts, due the callbacks that are in the array at that moment
Frame(i, targetState, args, phase) ==
    [inst |-> i, target |-> targetState, args |-> args,
     prev |-> currentState[i], phase |-> phase, k |-> 0,
     len |-> Len(onLeaveCbs[i][currentState[i]]),
     due |-> onLeaveCbs[i][currentState[i]], inCb |-> FALSE]

\* mutant: the current state advances before the leave callbacks are called
EnterAdvanced(i, targetState, args, phase) ==
    /\ stack' = Append(stack, Frame(i, targetState, args, phase))
    /\ last' = [op |-> "transitTo", inst |-> i, name |-> targetState,
                out |-> "in flight"]
    /\ transitioning' = [transitioning EXCEPT ![i] = TRUE]
    /\ calls' = CallsAtEntry
    /\ currentState' = [currentState EXCEPT ![i] = targetState]
    /\ UNCHANGED heap

Enter(i, targetState, args, phase) ==
    /\ stack' = Append(stack, Frame(i, targetState, args, phase))
    /\ last' = [op |-> "transitTo", inst |-> i, name |-> targetState,
                out |-> "in flight"]
    /\ transitioning' = [transitioning EXCEPT ![i] = TRUE]
    /\ calls' = CallsAtEntry
    /\ UNCHANGED <<heap, currentState>>

transitTo(i, targetState, args) ==
    /\ i \in insts /\ CanCall /\ Len(stack) < MaxDepth
    /\ IF Rejected(i) THEN ThrowRecursive(i, targetState)
       ELSE LET outcome == Outcome(i, targetState)
            IN  CASE outcome \in {StateNotRegistered, InvalidTransition} ->
                       EarlyReturn(i, targetState, outcome)
                  [] outcome = "TypeError" -> ThrowInside(i, targetState, outcome)
                  [] outcome = "loops" -> Enter(i, targetState, args, "loops")
                  [] outcome = "ok" -> Enter(i, targetState, args, "leave")
    /\ console' = IF Rejected(i) THEN <<>> ELSE logged(i, targetState)
    /\ UNCHANGED <<machine, statesByMachineStore, twin, firstEntry, logging, given, insts, props, initialState,
                   onEnterCbs, onLeaveCbs, handles, nRegs>>

(***************************************************************************)
(* The rest of _transitTo: callLeaveCbs, the merge, callEnterCbs, return.  *)
(***************************************************************************)
\* mutant: the callback lists are looked up in one store for all the
\* instances, the one of the lowest instance
DispatchListShared(frame) ==
    LET shared == CHOOSE j \in insts : \A k \in insts : j <= k
    IN  IF frame.phase = "leave"
        THEN onLeaveCbs[shared][currentState[frame.inst]]
        ELSE onEnterCbs[shared][frame.target]

\* the array forEach runs over
DispatchList(frame) ==
    IF frame.phase = "leave"
    THEN onLeaveCbs[frame.inst][currentState[frame.inst]]
    ELSE onEnterCbs[frame.inst][frame.target]

\* forEach visits index k while k is below the length it started with and
\* the array still has an element there
HasNext(frame) ==
    /\ frame.phase \in {"leave", "enter"}
    /\ frame.k < frame.len
    /\ frame.k < Len(DispatchList(frame))

\* mutant: prevState is read after currentState was assigned
CallbackArgsCurrent(frame) ==
    IF frame.phase = "leave" THEN <<frame.target>>
    ELSE <<currentState[frame.inst]>> \o frame.args

\* the arguments of the callback: cb(targetState), cb(prevState, ...args)
CallbackArgs(frame) ==
    IF frame.phase = "leave" THEN <<frame.target>>
    ELSE <<frame.prev>> \o frame.args

\* one invocation, with what the callback can read when it starts
Invocation(frame) ==
    [inst |-> frame.inst, phase |-> frame.phase,
     cb |-> DispatchList(frame)[frame.k + 1], args |-> CallbackArgs(frame),
     state |-> currentState[frame.inst], props |-> heap[props[frame.inst]]]

\* forEach calls the next callback
InvokeCallback ==
    /\ stack # <<>> /\ ~Top.inCb /\ HasNext(Top)
    /\ calls' = Append(calls, Invocation(Top))
    /\ stack' = SetTop([Top EXCEPT !.inCb = TRUE])
    /\ UNCHANGED <<machine, statesByMachineStore, twin, firstEntry, logging, given, console, insts, props,
                   initialState, heap, currentState,
                   transitioning, onEnterCbs, onLeaveCbs, handles, last, nRegs>>

\* the callback returns
CallbackReturns ==
    /\ stack # <<>> /\ Top.inCb
    /\ stack' = SetTop([Top EXCEPT !.inCb = FALSE, !.k = @ + 1])
    /\ UNCHANGED <<machine, statesByMachineStore, twin, firstEntry, logging, given, console, insts, props,
                   initialState, heap, currentState,
                   transitioning, onEnterCbs, onLeaveCbs, handles, calls, last,
                   nRegs>>

\* the callback throws: forEach, _transitTo and transitTo are left at once
CallbackThrows ==
    /\ stack # <<>> /\ Top.inCb
    /\ stack' = Pop
    /\ last' = [op |-> "transitTo", inst |-> Top.inst, name |-> Top.target,
                out |-> "CallbackError"]
    /\ UNCHANGED <<machine, statesByMachineStore, twin, firstEntry, logging, given, console, insts, props,
                   initialState, heap, currentState,
                   transitioning, onEnterCbs, onLeaveCbs, handles, calls, nRegs>>

\* mutant: the props are not merged with the snapshot first
MergedPropsNoReset(i, targetState) ==
    ApplyChain(heap[props[i]],
               StateChain(machine, targetState, StateToApply(i, targetState)).chain)

\* merge(this.props, initialState), then every state of the chain in turn
MergedProps(i, targetState) ==
    ApplyChain(merge(heap[props[i]], heap[initialState[i]]),
               StateChain(machine, targetState, StateToApply(i, targetState)).chain)

\* "Apply states chain", currentState = targetState, and on to callEnterCbs
ApplyStatesStep ==
    /\ stack # <<>> /\ ~Top.inCb /\ Top.phase = "leave" /\ ~HasNext(Top)
    /\ heap' = [heap EXCEPT ![props[Top.inst]] = MergedProps(Top.inst, Top.target)]
    /\ currentState' = [currentState EXCEPT ![Top.inst] = Top.target]
    /\ stack' = SetTop([Top EXCEPT !.phase = "enter", !.k = 0,
                                   !.len = Len(onEnterCbs[Top.inst][Top.target]),
                                   !.due = onEnterCbs[Top.inst][Top.target]])
    /\ UNCHANGED <<machine, statesByMachineStore, twin, logging, given, console, insts, props, initialState,
                   transitioning, onEnterCbs,
                   onLeaveCbs, handles, calls, last, nRegs>>

ApplyStates == ApplyStatesStep /\ UNCHANGED firstEntry

\* the same step, with the history of the first entry recorded
ApplyStatesRecorded ==
    /\ ApplyStatesStep
    /\ firstEntry' = IF firstEntry[Top.inst].state # "" THEN firstEntry
                      ELSE [firstEntry EXCEPT ![Top.inst] =
                               [state |-> Top.target,
                                props |-> MergedProps(Top.inst, Top.target)]]

\* _transitTo returns undefined, this.transitioning = false, return ret
Return ==
    /\ stack # <<>> /\ ~Top.inCb /\ Top.phase = "enter" /\ ~HasNext(Top)
    /\ stack' = Pop
    /\ transitioning' = [transitioning EXCEPT ![Top.inst] = FALSE]
    /\ last' = [op |-> "transitTo", inst |-> Top.inst, name |-> Top.target,
                out |-> NoError]
    /\ UNCHANGED <<machine, statesByMachineStore, twin, firstEntry, logging, given, console, insts, props,
                   initialState, heap, currentState,
                   onEnterCbs, onLeaveCbs, handles, calls, nRegs>>

(***************************************************************************)
(* The queries.                                                            *)
(***************************************************************************)
is(i, stateName) == currentState[i] = stateName

\* mutant: the list of the initial transitions is used in every state
canFromInitial(i, stateName) == Includes(initialTransitions(i), stateName)

can(i, stateName) ==
    IF isInitialState(i) THEN Includes(initialTransitions(i), stateName)
    ELSE Includes(getMetadataByName(machine, currentState[i]).to, stateName)

\* mutant: the list of the initial transitions is returned in every state
transitionsFromInitial(i) == initialTransitions(i)

transitions(i) ==
    IF isInitialState(i) THEN initialTransitions(i)
    ELSE getMetadataByName(machine, currentState[i]).to

\* mutant: is() assigns the name where it should compare
QueryAssigning(i, op, stateName) ==
    /\ i \in insts /\ CanCall
    /\ last' = [op |-> op, inst |-> i, name |-> "",
                out |-> CASE op = "is" -> TRUE
                          [] op = "can" -> can(i, stateName)
                          [] op = "transitions" -> transitions(i)
                          [] op = "currentState" -> currentState[i]]
    /\ currentState' = IF op = "is" THEN [currentState EXCEPT ![i] = stateName]
                       ELSE currentState
    /\ UNCHANGED <<machine, statesByMachineStore, twin, firstEntry, logging, given, console, insts, props,
                   initialState, heap,
                   transitioning, onEnterCbs, onLeaveCbs, handles, stack, calls,
                   nRegs>>

Query(i, op, stateName) ==
    /\ i \in insts /\ CanCall
    /\ last' = [op |-> op, inst |-> i, name |-> "",
                out |-> CASE op = "is" -> is(i, stateName)
                          [] op = "can" -> can(i, stateName)
                          [] op = "transitions" -> transitions(i)
                          [] op = "currentState" -> currentState[i]]
    /\ UNCHANGED <<machine, statesByMachineStore, twin, firstEntry, logging, given, console, insts, props,
                   initialState, heap, currentState,
                   transitioning, onEnterCbs, onLeaveCbs, handles, stack, calls,
                   nRegs>>

\* what is done with an instance, but for the merge step
Operations ==
    \/ \E i \in insts, s \in Names(machine), a \in ArgLists : transitTo(i, s, a)
    \/ InvokeCallback
    \/ CallbackReturns
    \/ CallbackThrows
    \/ Return
    \/ \E i \in insts, s \in HookNames(machine), cb \in Callbacks : onEnter(i, s, cb)
    \/ \E i \in insts, s \in HookNames(machine), cb \in Callbacks : onLeave(i, s, cb)
    \/ \E h \in handles : Deregister(h)
    \/ \E i \in insts, s \in Names(machine) : Query(i, "is", s)
    \/ \E i \in insts, s \in Names(machine) : Query(i, "can", s)
    \/ \E i \in insts : Query(i, "transitions", "")
    \/ \E i \in insts : Query(i, "currentState", "")

\* one instance is constructed, with the options of its class
Others ==
    \/ \E opts \in CtorInputs(machine) : constructor(1, opts)
    \/ Operations

\* one instance is constructed, with any value for logging
NextLogging ==
    \/ \E opts \in LoggingInputs(machine) : constructor(1, opts)
    \/ Operations
    \/ ApplyStates

Next == Others \/ ApplyStates

NextRecorded == Others \/ ApplyStatesRecorded

Spec == Init /\ [][Next]_vars

\* the same program with the first entry of each instance recorded
SpecRecorded == Init /\ [][NextRecorded]_vars

\* the example's class alone
SpecTraffic == InitTraffic /\ [][Next]_vars

\* the callback lists: no queries, and one more registration
NextHooks ==
    \/ \E opts \in CtorInputs(machine) : constructor(1, opts)
    \/ \E i \in insts, s \in Names(machine), a \in ArgLists : transitTo(i, s, a)
    \/ InvokeCallback
    \/ CallbackReturns
    \/ CallbackThrows
    \/ Return
    \/ \E i \in insts, s \in HookNames(machine), cb \in Callbacks :
          onEnterWithin(MaxHooks, i, s, cb)
    \/ \E i \in insts, s \in HookNames(machine), cb \in Callbacks :
          onLeaveWithin(MaxHooks, i, s, cb)
    \/ \E h \in handles : Deregister(h)
    \/ ApplyStates

SpecHooks == InitOf({"Machine"}) /\ [][NextHooks]_vars

\* the probe class with callbacks on the state that permits itself, a state
\* with an undeclared parent and a state of a cycle of parents: no queries
ProbeHooks == {"A"}

NextProbe ==
    \/ \E opts \in CtorInputs(machine) : constructor(1, opts)
    \/ \E i \in insts, s \in Names(machine), a \in ArgLists : transitTo(i, s, a)
    \/ InvokeCallback
    \/ CallbackReturns
    \/ CallbackThrows
    \/ Return
    \/ \E i \in insts, s \in ProbeHooks, cb \in Callbacks : onEnter(i, s, cb)
    \/ \E i \in insts, s \in ProbeHooks, cb \in Callbacks : onLeave(i, s, cb)
    \/ \E h \in handles : Deregister(h)
    \/ ApplyStates

SpecProbe == InitOf({"Probe"}) /\ [][NextProbe]_vars

\* the class with a state that permits itself and one that does not
SpecRevisit == InitOf({"Revisit"}) /\ [][NextProbe]_vars

\* a step of a transitTo in flight: forEach goes on, a callback returns or
\* throws, the merge, the return
Proceeds ==
    InvokeCallback \/ CallbackReturns \/ CallbackThrows \/ ApplyStates \/ Return

\* the same class, where a call in flight is never suspended for ever: the
\* engine is synchronous and the callbacks terminate
SpecProbeFair == SpecProbe /\ WF_vars(Proceeds)

\* two instances of one class, the second constructed with props of its own
\* or with the props object the first was given: no callbacks, no queries
NextShared ==
    \/ constructor(1, CtorOpts(machine))
    \/ constructor(2, CtorOpts(machine))
    \/ constructorSharing(2, 1, CtorOpts(machine))
    \/ \E i \in insts, s \in Names(machine) : transitTo(i, s, <<>>)
    \/ ApplyStates
    \/ Return

SpecShared == InitOf({"Machine"}) /\ [][NextShared]_vars

(***************************************************************************)
(* StateMachineStore: the registry of the declarations, a Map from the     *)
(* machine type to its StatesStore.                                        *)
(***************************************************************************)
NoDeclaration == [parentState |-> "", to |-> <<>>]

\* new StatesStore()
NewStatesStore == [s \in {} |-> NoDeclaration]

\* StatesStore.addState(stateName, parentState, to): the declaration is
\* recorded, a second one for the same name replaces the first
StatesStore_addState(store, stateName, parentState, to) ==
    [s \in DOMAIN store \cup {stateName} |->
        IF s = stateName THEN [parentState |-> parentState, to |-> to]
        ELSE store[s]]

\* StatesStore.getState(stateName): the declaration, or undefined
StatesStore_getState(store, stateName) ==
    IF stateName \in DOMAIN store
    THEN [status |-> "declaration", value |-> store[stateName]]
    ELSE [status |-> "undefined", value |-> NoDeclaration]

\* mutant: one StatesStore for all the machine types
DefinedInOneStore(map, target, stateName, parentState, to) ==
    [t \in DOMAIN map \cup {target} |->
        StatesStore_addState(IF t \in DOMAIN map THEN map[t] ELSE NewStatesStore,
                             stateName, parentState, to)]

\* the Map after defineState: a StatesStore is made for a type that has
\* none, then the state is added to the store of the type
Defined(map, target, stateName, parentState, to) ==
    [t \in DOMAIN map \cup {target} |->
        IF t = target
        THEN StatesStore_addState(IF t \in DOMAIN map THEN map[t]
                                  ELSE NewStatesStore,
                                  stateName, parentState, to)
        ELSE map[t]]

\* what getState gives: statesByMachineStore.get(target)!.getState(stateName)
\* throws a TypeError when the Map has no entry for the type
Got(map, target, stateName) ==
    IF target \notin DOMAIN map
    THEN [status |-> "TypeError", value |-> NoDeclaration]
    ELSE StatesStore_getState(map[target], stateName)

\* StateMachineStore.defineState(target, stateName, parentState, to)
defineState(target, stateName, parentState, to) ==
    /\ stack = <<>>
    /\ statesByMachineStore' =
          Defined(statesByMachineStore, target, stateName, parentState, to)
    /\ last' = [op |-> "defineState", inst |-> 0, name |-> stateName,
                out |-> [target |-> target, status |-> "", value |-> NoDeclaration]]
    /\ UNCHANGED <<machine, insts, props, initialState, heap, currentState,
                   transitioning, onEnterCbs, onLeaveCbs, handles, stack, calls,
                   nRegs, firstEntry, logging, given, console, twin>>

\* StateMachineStore.getState(target, stateName)
getState(target, stateName) ==
    /\ stack = <<>>
    /\ last' = [op |-> "getState", inst |-> 0, name |-> stateName,
                out |-> [target |-> target,
                         status |-> Got(statesByMachineStore, target, stateName).status,
                         value |-> Got(statesByMachineStore, target, stateName).value]]
    /\ UNCHANGED <<machine, statesByMachineStore, insts, props, initialState, heap,
                   currentState, transitioning, onEnterCbs, onLeaveCbs, handles,
                   stack, calls, nRegs, firstEntry, logging, given, console, twin>>

\* the machine types, the state names and the declarations given to the
\* registry: two types that declare states of the same names
RegistryTypes == {"Machine", "Traffic"}

RegistryNames == {"A", "B"}

RegistryParents == {INITIAL, "A"}

RegistryTo == {<<>>, <<"B">>}

NextRegistry ==
    \/ \E t \in RegistryTypes, s \in RegistryNames, p \in RegistryParents,
          to \in RegistryTo : defineState(t, s, p, to)
    \/ \E t \in RegistryTypes, s \in RegistryNames : getState(t, s)

SpecRegistry == InitOf({"Machine"}) /\ [][NextRegistry]_vars

\* the names the callers of two instances pass to transitTo
TwoNames == {"mainState", "requestState", "foobar"}

\* two instances of one class: no queries
NextTwo ==
    \/ \E i \in {1, 2} : constructor(i, CtorOpts(machine))
    \/ \E i \in insts, s \in TwoNames : transitTo(i, s, <<>>)
    \/ InvokeCallback
    \/ CallbackReturns
    \/ CallbackThrows
    \/ Return
    \/ \E i \in insts, s \in HookNames(machine), cb \in Callbacks : onEnter(i, s, cb)
    \/ \E i \in insts, s \in HookNames(machine), cb \in Callbacks : onLeave(i, s, cb)
    \/ \E h \in handles : Deregister(h)
    \/ ApplyStates

SpecTwo == InitOf({"Machine"}) /\ [][NextTwo]_vars

(***************************************************************************)
(* Two machines of one class that differ in the logging option only, and   *)
(* one caller that gives every operation to the first and then to the      *)
(* second, and notes what each answered.  The callbacks are the same       *)
(* functions on both: f returns and g throws.                              *)
(***************************************************************************)
PairRegs == 2 * MaxRegs

PairArgs == <<"x", "y">>

\* the operations the caller gives to both machines
PairOps(m) ==
    {[op |-> "transitTo", name |-> s, cb |-> "", on |-> ""] : s \in TwoNames}
    \cup {[op |-> o, name |-> s, cb |-> c, on |-> ""] :
             o \in {"onEnter", "onLeave"}, s \in HookNames(m), c \in Callbacks}
    \cup {[op |-> "drop", name |-> s, cb |-> c, on |-> ph] :
             s \in HookNames(m), c \in Callbacks, ph \in {"enter", "leave"}}

HandleOf(o, i) == [inst |-> i, phase |-> o.on, state |-> o.name, cb |-> o.cb]

\* operation o can be given to both machines
CanIssue(o) ==
    CASE o.op \in {"onEnter", "onLeave"} -> nRegs + 2 <= PairRegs
      [] o.op = "drop" -> HandleOf(o, 1) \in handles /\ HandleOf(o, 2) \in handles
      [] OTHER -> TRUE

\* operation o on machine i
Run(o, i) ==
    CASE o.op = "transitTo" -> transitTo(i, o.name, PairArgs)
      [] o.op = "onEnter" -> onEnterWithin(PairRegs, i, o.name, o.cb)
      [] o.op = "onLeave" -> onLeaveWithin(PairRegs, i, o.name, o.cb)
      [] o.op = "drop" -> Deregister(HandleOf(o, i))

\* the caller picks the next operation, and clears its notes
Issue(o) ==
    /\ insts = {1, 2} /\ stack = <<>> /\ twin.phase = "idle" /\ CanIssue(o)
    /\ twin' = [Idle EXCEPT !.phase = "first", !.op = o]
    /\ last' = NoOp
    /\ calls' = <<>>
    /\ UNCHANGED <<machine, statesByMachineStore, insts, props, initialState, heap, currentState,
                   transitioning, onEnterCbs, onLeaveCbs, handles, stack, nRegs,
                   firstEntry, logging, given, console>>

\* the operation on the first machine
First == twin.phase = "first" /\ last = NoOp /\ Run(twin.op, 1)

\* it has returned or thrown: the caller notes the answer and the
\* invocations
Noted ==
    /\ twin.phase = "first" /\ last # NoOp /\ stack = <<>>
    /\ twin' = [twin EXCEPT !.phase = "second", !.out = last.out, !.calls = calls]
    /\ last' = NoOp
    /\ calls' = <<>>
    /\ UNCHANGED <<machine, statesByMachineStore, insts, props, initialState, heap, currentState,
                   transitioning, onEnterCbs, onLeaveCbs, handles, stack, nRegs,
                   firstEntry, logging, given, console>>

\* the same operation on the second machine
Second == twin.phase = "second" /\ last = NoOp /\ Run(twin.op, 2)

\* the second machine has answered
Answered == twin.phase = "second" /\ last # NoOp /\ stack = <<>>

\* the caller is done with the operation
Compared ==
    /\ Answered
    /\ twin' = Idle
    /\ UNCHANGED <<machine, statesByMachineStore, insts, props, initialState, heap, currentState,
                   transitioning, onEnterCbs, onLeaveCbs, handles, stack, calls,
                   last, nRegs, firstEntry, logging, given, console>>

\* the callback that is running
Running == calls[Len(calls)].cb

NextPair ==
    \/ \E opts \in LoggingInputs(machine) : constructor(1, opts)
    \/ \E opts \in LoggingInputs(machine) :
          1 \in insts /\ opts.logging # given[1] /\ constructor(2, opts)
    \/ \E o \in PairOps(machine) : Issue(o)
    \/ First
    \/ Noted
    \/ Second
    \/ Compared
    \/ InvokeCallback
    \/ stack # <<>> /\ Top.inCb /\ Running = "f" /\ CallbackReturns
    \/ stack # <<>> /\ Top.inCb /\ Running = "g" /\ CallbackThrows
    \/ Return
    \/ ApplyStates

SpecPair == InitOf({"Machine"}) /\ [][NextPair]_vars

\* the test suite's class, constructed with logging omitted, false or true
SpecLogging == InitOf({"Machine"}) /\ [][NextLogging]_vars

(***************************************************************************)
(* Properties.                                                             *)
(***************************************************************************)
\* a call that returned: no error, or one of the two transition errors
ReturnedValues == {NoError, InvalidTransition, StateNotRegistered}

\* the edge from -> to is declared
DeclaredEdge(from, to) ==
    IF from = "initial" THEN Includes(CtorOpts(machine).initialTransitions, to)
    ELSE from \in DeclaredStates(machine) /\ Includes(Metadata(machine)[from].to, to)

\* the parents of t lead to 'initial'
ChainResolves(t) == StateChain(machine, t, EmptyProps).status = "ok"

\* the last operation was a top-level transitTo on i that returned no error
Succeeded(i) ==
    /\ stack = <<>>
    /\ last.op = "transitTo" /\ last.inst = i /\ last.out = NoError

\* C1: currentState changes only as the step of a transitTo in flight that
\* is not inside a callback (so by no other operation), and every change
\* follows a declared edge: from 'initial' to a member of
\* initialTransitions, from any other state to a member of its 'to' list.
C1_ChangesFollowDeclaredEdges ==
    [][\A i \in insts :
          currentState'[i] # currentState[i] =>
             /\ stack # <<>>
             /\ ~Top.inCb /\ Top.inst = i /\ Top.target = currentState'[i]
             /\ DeclaredEdge(currentState[i], currentState'[i])]_vars

\* a transition between two different declared states has been applied
C1_Witness ==
    /\ stack # <<>>
    /\ Top.phase = "enter"
    /\ Top.prev \notin {"initial", Top.target}
    /\ currentState[Top.inst] = Top.target

\* C2: a top-level transitTo to a declared state that is permitted from the
\* current state (and whose parents lead to 'initial') is accepted, and
\* when it returns it returns no error with currentState equal to the
\* target.
C2_PermittedCallSucceeds ==
    [][/\ (/\ stack = <<>>
           /\ last'.op = "transitTo"
           /\ last'.name \in DeclaredStates(machine)
           /\ Permitted(last'.inst, last'.name) /\ ChainResolves(last'.name)
           /\ \E a \in ArgLists : transitTo(last'.inst, last'.name, a)) =>
             last'.out = "in flight"
       /\ (Len(stack) = 1 /\ Return) =>
             (last'.out = NoError /\ currentState'[Top.inst] = Top.target)]_vars

\* the props a state resolves to: the constructor's props overlaid with
\* the chain of the state, outermost ancestor first
Resolved(t) ==
    ApplyChain(CtorOpts(machine).props,
               StateChain(machine, t,
                          IF t = "initial" THEN CtorOpts(machine).props
                          ELSE Field(machine, t)).chain)

\* C3: after a successful transitTo(T) the live props are exactly the
\* initial snapshot overlaid with T's chain, whatever was visited before.
C3_PropsAreTheResolvedOverlay ==
    \A i \in insts : Succeeded(i) => heap[props[i]] = Resolved(last.name)

\* C4: a transitTo that returns InvalidTransition or StateNotRegistered
\* leaves currentState and every property value as they were.
C4_FailureChangesNothing ==
    [][(/\ last'.op = "transitTo"
        /\ last'.out \in {InvalidTransition, StateNotRegistered}
        /\ \E a \in ArgLists : transitTo(last'.inst, last'.name, a)) =>
       (currentState' = currentState /\ heap' = heap /\ props' = props)]_vars

\* a rejected request in a state whose props differ from the snapshot
C4_Witness ==
    /\ last.op = "transitTo" /\ last.out = InvalidTransition
    /\ currentState[last.inst] # "initial"
    /\ heap[props[last.inst]] # heap[initialState[last.inst]]

\* the key paths of a property bag, and the value at a path
Paths(p) ==
    {<<k>> : k \in {x \in DOMAIN p : p[x].kind = "scalar"}} \cup
    UNION {{<<k, f>> : f \in DOMAIN p[k].fields} :
              k \in {x \in DOMAIN p : p[x].kind = "object"}}

At(p, path) ==
    IF Len(path) = 1 THEN p[path[1]].val ELSE p[path[1]].fields[path[2]]

\* the layers of a state, the snapshot first and the state itself last
Layers(t) ==
    <<CtorOpts(machine).props>> \o
    StateChain(machine, t,
               IF t = "initial" THEN CtorOpts(machine).props
               ELSE Field(machine, t)).chain

\* the value of the most specific layer that sets the path
MostSpecific(t, path) ==
    LET n == CHOOSE n \in 1..Len(Layers(t)) :
                /\ path \in Paths(Layers(t)[n])
                /\ \A j \in (n + 1)..Len(Layers(t)) : path \notin Paths(Layers(t)[j])
    IN  At(Layers(t)[n], path)

\* C5: after a successful transition to T every key path of the live props
\* is set by a layer of T (T, an ancestor, or the initial snapshot) and has
\* the value of the most specific layer that sets it.
C5_FieldLevelPrecedence ==
    \A i \in insts : Succeeded(i) =>
        /\ Paths(heap[props[i]]) =
              UNION {Paths(Layers(last.name)[n]) : n \in 1..Len(Layers(last.name))}
        /\ \A path \in Paths(heap[props[i]]) :
              At(heap[props[i]], path) = MostSpecific(last.name, path)

\* C6: a top-level transitTo to a declared state that is not permitted from
\* the current state returns InvalidTransition.
C6_NotPermittedReturnsInvalidTransition ==
    [][(/\ stack = <<>>
        /\ last'.op = "transitTo"
        /\ last'.name \in DeclaredStates(machine)
        /\ ~Permitted(last'.inst, last'.name)
        /\ \E a \in ArgLists : transitTo(last'.inst, last'.name, a)) =>
       last'.out = InvalidTransition]_vars

\* C7: a top-level transitTo to a name that is neither a declared state nor
\* 'initial' returns StateNotRegistered and changes nothing.
C7_UndeclaredReturnsStateNotRegistered ==
    [][(/\ stack = <<>>
        /\ last'.op = "transitTo"
        /\ last'.name \notin DeclaredStates(machine) \cup {"initial"}
        /\ \E a \in ArgLists : transitTo(last'.inst, last'.name, a)) =>
       (last'.out = StateNotRegistered /\ currentState' = currentState)]_vars

\* C8: the snapshot always equals the props the constructor was given, and
\* entering the state that was entered first again gives the props it had
\* the first time.
C8_SnapshotFixedAndReentrySame ==
    \A i \in insts :
        /\ heap[initialState[i]] = CtorOpts(machine).props
        /\ (Succeeded(i) /\ last.name = firstEntry[i].state) =>
              heap[props[i]] = firstEntry[i].props

\* C9: a transitTo on an instance that has a transitTo in flight throws the
\* recursive-transition error, changes neither currentState nor props,
\* and leads to no callback (no invocation is added, no call is started).
C9_NestedCallIsRejected ==
    [][(/\ last'.op = "transitTo"
        /\ \E n \in 1..Len(stack) : stack[n].inst = last'.inst
        /\ \E a \in ArgLists : transitTo(last'.inst, last'.name, a)) =>
       /\ last'.out = RecursiveTransition
       /\ currentState' = currentState /\ heap' = heap /\ props' = props
       /\ calls' = calls /\ stack' = stack]_vars

\* a callback of the instance has just had its transitTo rejected
C9_Witness ==
    /\ stack # <<>>
    /\ Top.inCb
    /\ last.op = "transitTo" /\ last.inst = Top.inst
    /\ last.out = RecursiveTransition

\* C10: when transitTo returns (no error or a transition error) the flag of
\* the instance is clear; a top-level transitTo right after it is not
\* rejected as recursive, and after a failed one a permitted transition to
\* a declared state whose parents resolve is accepted.
C10_FlagClearAfterReturn ==
    [][/\ (last'.op = "transitTo" /\ last'.out \in ReturnedValues) =>
             ~transitioning'[last'.inst]
       /\ (/\ stack = <<>>
           /\ last.op = "transitTo" /\ last.out \in ReturnedValues
           /\ last'.op = "transitTo" /\ last'.inst = last.inst
           /\ \E a \in ArgLists : transitTo(last'.inst, last'.name, a)) =>
             /\ last'.out # RecursiveTransition
             /\ (/\ last.out # NoError
                 /\ last'.name \in DeclaredStates(machine)
                 /\ Permitted(last'.inst, last'.name)
                 /\ ChainResolves(last'.name)) => last'.out = "in flight"]_vars

\* a failed top-level call has returned in a state other than 'initial',
\* and the flag is clear
C10_Witness ==
    /\ stack = <<>>
    /\ last.op = "transitTo" /\ last.out = StateNotRegistered
    /\ currentState[last.inst] # "initial"
    /\ ~transitioning[last.inst]

\* C11: while a transitTo from S to T is in its leave phase nothing has
\* been changed yet: every step that leaves the call in that phase (the
\* entry of the call, each invocation and return of a leave callback, and
\* whatever the callback calls) keeps currentState at S and keeps every
\* property value, so each leave callback is invoked with currentState = S
\* and the props of before the call.
C11_LeaveCallbacksSeeTheOldState ==
    [][/\ (stack' # <<>> /\ Top'.phase = "leave") =>
             /\ currentState' = currentState /\ heap' = heap /\ props' = props
             /\ currentState'[Top'.inst] = Top'.prev
       /\ (stack # <<>> /\ Top.phase = "leave" /\ InvokeCallback) =>
             /\ calls'[Len(calls')].state = Top.prev
             /\ calls'[Len(calls')].props = heap[props[Top.inst]]]_vars

\* a leave callback is running in a transition out of a state whose props
\* differ from the snapshot
C11_Witness ==
    /\ stack # <<>>
    /\ Top.phase = "leave" /\ Top.inCb
    /\ Top.prev # "initial"
    /\ calls # <<>> /\ calls[Len(calls)].phase = "leave"
    /\ calls[Len(calls)].state = Top.prev
    /\ calls[Len(calls)].props # heap[initialState[Top.inst]]

\* C12: an enter callback of a transition to T is invoked with
\* currentState = T and with the props equal to the resolved overlay of T
\* (the snapshot overlaid with T's chain).
C12_EnterCallbacksSeeTheNewState ==
    \A n \in 1..Len(calls) :
        (stack # <<>> /\ calls[n].phase = "enter") =>
            /\ calls[n].state = Top.target
            /\ calls[n].props = Resolved(Top.target)

C13_WitnessInitial ==
    /\ stack # <<>>
    /\ Top.phase = "enter" /\ Top.inCb
    /\ calls # <<>>
    /\ calls[Len(calls)].args = <<"initial">>

\* the invocations of one phase that the call in flight has made so far
PhaseCalls(phase) == SelectSeq(calls, LAMBDA c : c.phase = phase)

\* forEach has come to its end in the given phase of the call in flight
DispatchDone(phase) ==
    /\ stack # <<>>
    /\ Top.phase = phase /\ ~Top.inCb /\ ~HasNext(Top)

\* C14: when the dispatch of the leave callbacks of a transitTo from S to T
\* has ended, the leave callbacks that were invoked are exactly the ones
\* that were registered for S when the dispatch began (no more, so none of
\* another state), each was given T, and each ran while S was current.
C14_LeaveCallbacksOfTheStateLeft ==
    DispatchDone("leave") =>
        /\ Len(PhaseCalls("leave")) = Len(Top.due)
        /\ \A n \in 1..Len(PhaseCalls("leave")) :
              /\ n <= Len(Top.due) => PhaseCalls("leave")[n].cb = Top.due[n]
              /\ PhaseCalls("leave")[n].args = <<Top.target>>
              /\ PhaseCalls("leave")[n].state = Top.prev

\* C15: when the dispatch of a phase of a transitTo has ended, the
\* callbacks that were registered for the state of that phase (T for
\* enter, the state left for leave) when the dispatch began have each been
\* invoked exactly once, in registration order, and nothing else has.
C15_EachCallbackOnceInOrder ==
    \A phase \in {"leave", "enter"} :
        DispatchDone(phase) =>
            [n \in 1..Len(PhaseCalls(phase)) |-> PhaseCalls(phase)[n].cb] = Top.due

\* the callbacks of a list other than cb, in their order
Except(list, cb) == SelectSeq(list, LAMBDA c : c # cb)

\* C16: calling a handle that onEnter or onLeave returned changes only the
\* list of its own state and phase, and in that list it removes nothing but
\* the callback it was returned for: the other callbacks of the list stay,
\* in their order.
C16_HandleRemovesOnlyItsCallback ==
    [][\A h \in handles : Deregister(h) =>
          /\ \A i \in insts, s \in Names(machine) :
                /\ (h.phase # "enter" \/ h.inst # i \/ h.state # s) =>
                       onEnterCbs'[i][s] = onEnterCbs[i][s]
                /\ (h.phase # "leave" \/ h.inst # i \/ h.state # s) =>
                       onLeaveCbs'[i][s] = onLeaveCbs[i][s]
          /\ h.phase = "enter" =>
                Except(onEnterCbs'[h.inst][h.state], h.cb) =
                   Except(onEnterCbs[h.inst][h.state], h.cb)
          /\ h.phase = "leave" =>
                Except(onLeaveCbs'[h.inst][h.state], h.cb) =
                   Except(onLeaveCbs[h.inst][h.state], h.cb)]_vars

\* the list the declarations permit from a state
DeclaredNext(from) ==
    IF from = "initial" THEN CtorOpts(machine).initialTransitions
    ELSE Metadata(machine)[from].to

\* C17: whenever can(name) is called it returns whether name is in
\* initialTransitions (currentState 'initial') or in the 'to' list of the
\* current state (otherwise), and whenever is(name) is called it returns
\* whether name is currentState.
C17_CanAndIsAnswerFromTheCurrentState ==
    [][/\ last'.op = "can" =>
             \A i \in insts, s \in Names(machine) :
                 Query(i, "can", s) =>
                    (last'.out = Includes(DeclaredNext(currentState[i]), s))
       /\ last'.op = "is" =>
             \A i \in insts, s \in Names(machine) :
                 Query(i, "is", s) => (last'.out = (s = currentState[i]))]_vars

\* can() has answered TRUE in a state other than 'initial'
C17_Witness ==
    /\ last.op = "can"
    /\ last.out = TRUE
    /\ currentState[last.inst] # "initial"
    /\ ~Includes(CtorOpts(machine).initialTransitions,
                 DeclaredNext(currentState[last.inst])[1])

\* C18: whenever transitions() is called it returns initialTransitions
\* (currentState 'initial') or the 'to' list of the current state, in the
\* declared order, and its members are the names can() is true of.
C18_TransitionsListsWhatCanPermits ==
    [][\A i \in insts :
          (last'.op = "transitions" /\ Query(i, "transitions", "")) =>
             /\ last'.out = DeclaredNext(currentState[i])
             /\ \A s \in Names(machine) : Includes(last'.out, s) <=> can(i, s)]_vars

\* transitions() has returned a list of two in a state other than 'initial'
C18_Witness ==
    /\ last.op = "transitions"
    /\ currentState[last.inst] # "initial"
    /\ Len(last.out) = 2
    /\ last.out # CtorOpts(machine).initialTransitions

\* what holds of an instance that has been constructed and has not been
\* asked for a transition
Fresh(i) ==
    /\ currentState[i] = "initial"
    /\ is(i, "initial")
    /\ heap[props[i]] = heap[initialState[i]]
    /\ heap[props[i]] = CtorOpts(machine).props

\* C19: the constructor leaves the instance with currentState 'initial',
\* is('initial') true and the live props equal to the snapshot (the props
\* given to the constructor), and no operation other than transitTo
\* changes that.
C19_FreshInstanceIsInitial ==
    [][\A i \in insts' :
          /\ i \notin insts => Fresh(i)'
          /\ (i \in insts /\ Fresh(i) /\ stack = <<>> /\ last'.op # "transitTo") =>
                Fresh(i)']_vars

\* callbacks were registered and is('initial') answered TRUE on an
\* instance that has not been asked for a transition
C19_Witness ==
    /\ insts # {}
    /\ nRegs > 0
    /\ last.op = "is" /\ last.out = TRUE
    /\ \A i \in insts : Fresh(i) /\ ~transitioning[i]

\* C20: the constructor throws when it is given an empty list of initial
\* transitions, and then there is no instance and nothing has changed;
\* given a list that is not empty it returns an instance.
C20_EmptyInitialTransitionsRejected ==
    [][\A opts \in CtorInputs(machine) :
          constructor(1, opts) =>
             IF opts.initialTransitions = <<>>
             THEN /\ last'.out = "Error"
                  /\ insts' = {}
                  /\ UNCHANGED <<props, initialState, heap, currentState,
                                 transitioning, onEnterCbs, onLeaveCbs>>
             ELSE /\ last'.out # "Error"
                  /\ insts' = {1}]_vars

\* the constructor has thrown, and there is no instance
C20_Witness ==
    /\ last.op = "new" /\ last.out = "Error"
    /\ insts = {}

\* the traffic light has gone to Green and then to Orange, and the call
\* that took it to Orange has returned no error
TrafficAtOrange(i) ==
    /\ machine = "Traffic"
    /\ Succeeded(i) /\ last.name = "Orange"
    /\ currentState[i] = "Orange"
    /\ heap[props[i]] = [message |-> Scalar("CAUTION"), safe |-> Scalar("false")]

\* C21 as stated: in that state transitTo(Red) returns InvalidTransition
\* and leaves currentState and the props as they are.
C21_RedIsRefusedFromOrange ==
    [][\A i \in insts :
          (TrafficAtOrange(i) /\ last'.op = "transitTo"
           /\ \E a \in ArgLists : transitTo(i, "Red", a)) =>
             /\ last'.out = InvalidTransition
             /\ currentState' = currentState /\ heap' = heap]_vars

\* C21, amended: Orange is declared with Red among its permitted next
\* states, so in that state transitTo(Red) is accepted, and when it returns
\* it returns no error with currentState Red and the props of Red over the
\* snapshot, {message:'STOP', safe:false}.
C21_RedIsPermittedFromOrange ==
    [][\A i \in insts :
          /\ (TrafficAtOrange(i) /\ last'.op = "transitTo"
              /\ \E a \in ArgLists : transitTo(i, "Red", a)) =>
                 (last'.out = "in flight" /\ currentState' = currentState
                  /\ heap' = heap)
          /\ (/\ machine = "Traffic" /\ stack # <<>>
              /\ Top.inst = i /\ Top.prev = "Orange" /\ Top.target = "Red"
              /\ Return) =>
                 /\ last'.out = NoError
                 /\ currentState'[i] = "Red"
                 /\ heap'[props'[i]] =
                       [message |-> Scalar("STOP"), safe |-> Scalar("false")]]_vars

\* the traffic light has gone from Orange to Red, and the call has returned
C21_Witness ==
    /\ machine = "Traffic"
    /\ \E i \in insts :
          /\ Succeeded(i) /\ last.name = "Red"
          /\ currentState[i] = "Red"
          /\ heap[props[i]].message = Scalar("STOP")

\* C22: an instance that has left 'initial' never has currentState
\* 'initial' again.
C22_InitialIsNeverReentered ==
    [][\A i \in insts :
          currentState[i] # "initial" => currentState'[i] # "initial"]_vars

\* C23: a transitTo that returns InvalidTransition or StateNotRegistered
\* gives a message to console.error exactly when the constructor of the
\* instance was given logging: true (none when logging was omitted or
\* false).
C23_MessageExactlyWhenLoggingTrue ==
    [][(/\ last'.op = "transitTo"
        /\ last'.out \in {InvalidTransition, StateNotRegistered}
        /\ \E a \in ArgLists : transitTo(last'.inst, last'.name, a)) =>
       ((console' # <<>>) <=> (given[last'.inst] = "true"))]_vars

\* C26: a transitTo that returns InvalidTransition or StateNotRegistered
\* invokes no callback: it starts no dispatch, and the record of the
\* invocations of the call is empty (or, for a call made inside a callback,
\* the record of the outer call is as it was).
C26_FailureInvokesNoCallback ==
    [][(/\ last'.op = "transitTo"
        /\ last'.out \in {InvalidTransition, StateNotRegistered}
        /\ \E a \in ArgLists : transitTo(last'.inst, last'.name, a)) =>
       /\ stack' = stack
       /\ calls' = (IF stack = <<>> THEN <<>> ELSE calls)]_vars

\* a call was refused in a state that has a leave callback and an enter
\* callback registered, with that state as the target, and nothing was
\* invoked
C26_Witness ==
    /\ stack = <<>>
    /\ last.op = "transitTo" /\ last.out = InvalidTransition
    /\ last.name = currentState[last.inst]
    /\ onLeaveCbs[last.inst][last.name] # <<>>
    /\ onEnterCbs[last.inst][last.name] # <<>>
    /\ calls = <<>>

\* C27: the flag of an instance is set only while a transitTo of the
\* instance is in flight; in particular it is clear after a call that ended
\* by an exception, so that the next top-level call is not rejected.
C27_FlagOnlyWhileInFlight ==
    \A i \in insts :
        transitioning[i] => \E n \in 1..Len(stack) : stack[n].inst = i

\* C28: after a successful transition to T the live props have no key path
\* that is neither in the initial snapshot nor set by a state of T's chain.
C28_NoKeyOfAStateOutsideTheChain ==
    \A i \in insts : Succeeded(i) =>
        \A path \in Paths(heap[props[i]]) :
            \E n \in 1..Len(Layers(last.name)) : path \in Paths(Layers(last.name)[n])

\* C30: calling a handle whose callback is no longer in its list removes
\* nothing.
C30_SecondCallOfAHandleRemovesNothing ==
    [][\A h \in handles :
          (/\ Deregister(h)
           /\ ~Includes(IF h.phase = "enter" THEN onEnterCbs[h.inst][h.state]
                        ELSE onLeaveCbs[h.inst][h.state], h.cb)) =>
             (onEnterCbs' = onEnterCbs /\ onLeaveCbs' = onLeaveCbs)]_vars

\* the list a handle works on
ListOf(h) ==
    IF h.phase = "enter" THEN onEnterCbs[h.inst][h.state]
    ELSE onLeaveCbs[h.inst][h.state]

\* C29: calling the handle of a registration removes that registration
\* and leaves the rest of the list in its order, also when the callback is
\* in the list more than once: called right after the registration that
\* returned it, which appended the callback, the handle removes the last
\* element of the list (after registering A, B, A the list is A, B).
C29_HandleRemovesItsOwnRegistration ==
    [][\A h \in handles :
          (/\ Deregister(h)
           /\ last.op = (IF h.phase = "enter" THEN "onEnter" ELSE "onLeave")
           /\ last.inst = h.inst /\ last.name = h.state
           /\ ListOf(h) # <<>>
           /\ ListOf(h)[Len(ListOf(h))] = h.cb) =>
             ListOf(h)' = SubSeq(ListOf(h), 1, Len(ListOf(h)) - 1)]_vars

\* what the store of an instance holds besides the snapshot
StoreOf(j) == <<currentState[j], onEnterCbs[j], onLeaveCbs[j]>>

\* the step is an operation on instance i, or a step of a transitTo of
\* instance i
OnInstance(i) ==
    \/ \E s \in TwoNames : transitTo(i, s, <<>>)
    \/ \E s \in HookNames(machine), cb \in Callbacks :
          onEnter(i, s, cb) \/ onLeave(i, s, cb)
    \/ \E h \in handles : h.inst = i /\ Deregister(h)
    \/ /\ stack # <<>>
       /\ Top.inst = i
       /\ InvokeCallback \/ CallbackReturns \/ CallbackThrows \/ Return
                         \/ ApplyStates

\* the callbacks instance i has registered for what the invocation is about
OwnCallbacks(i, frame) ==
    IF frame.phase = "leave" THEN onLeaveCbs[i][currentState[i]]
    ELSE onEnterCbs[i][frame.target]

\* C25: each instance has its own store: a transitTo, an onEnter, an
\* onLeave or a call of a handle on one instance, and every step of a
\* transitTo of that instance, leaves the current state and the enter and
\* leave callback lists of every other instance as they are, and a callback
\* it invokes is one that is registered on that instance.
C25_InstancesHaveTheirOwnStore ==
    [][\A i \in insts :
          OnInstance(i) =>
            /\ \A j \in insts \ {i} : StoreOf(j)' = StoreOf(j)
            /\ InvokeCallback =>
                  /\ calls'[Len(calls')].inst = i
                  /\ Includes(OwnCallbacks(i, Top), calls'[Len(calls')].cb)]_vars

\* two instances, f registered on the first and g on the second for the
\* entry of mainState; a transitTo('mainState') of the first has returned:
\* only f was invoked and the second is as it was
C25_Witness ==
    /\ insts = {1, 2} /\ stack = <<>>
    /\ last = [op |-> "transitTo", inst |-> 1, name |-> "mainState",
               out |-> NoError]
    /\ onEnterCbs[1]["mainState"] = <<"f">>
    /\ onEnterCbs[2]["mainState"] = <<"g">>
    /\ currentState[1] = "mainState" /\ currentState[2] = INITIAL
    /\ Len(calls) = 1 /\ calls[1].cb = "f" /\ calls[1].inst = 1

\* an invocation as the caller sees it, whichever machine made it
Seen(inv) == [inv EXCEPT !.inst = 0]

StillRegistered(list) ==
    SelectSeq(list, LAMBDA c : Includes(DispatchList(Top), c))

NoDuplicates(list) ==
    \A a, b \in 1..Len(list) : list[a] = list[b] => a = b

\* C31: removal during dispatch does not disturb the other callbacks: when
\* the dispatch of a phase has ended, the callbacks that were registered
\* when it began and are still registered have each been invoked exactly
\* once, in registration order, whatever handles the callbacks called.
C31_RemovalDuringDispatchSkipsNothing ==
    \A phase \in {"leave", "enter"} :
        (DispatchDone(phase) /\ NoDuplicates(Top.due)) =>
            SelectSeq([n \in 1..Len(PhaseCalls(phase)) |-> PhaseCalls(phase)[n].cb],
                      LAMBDA c : Includes(StillRegistered(Top.due), c))
               = StillRegistered(Top.due)

\* the walk up the parents of t meets a name with no declaration
ChainBroken(t) == StateChain(machine, t, EmptyProps).status = "TypeError"

\* C32: a transitTo to a declared and permitted state whose chain of
\* parents meets a name with no declaration ends with an error thrown to
\* the caller, not with a returned value, and before anything happened: no
\* leave callback has run or will run, and the props and the current state
\* are as before.
C32_BrokenParentChainThrowsBeforeAnyEffect ==
    [][\A i \in insts, t \in DeclaredStates(machine) :
          (/\ last'.op = "transitTo" /\ last'.inst = i /\ last'.name = t
           /\ ~Rejected(i)
           /\ isInitialState(i) \/ HasMetadata(machine, currentState[i])
           /\ Permitted(i, t)
           /\ ChainBroken(t)
           /\ \E a \in ArgLists : transitTo(i, t, a)) =>
             /\ last'.out \notin ReturnedValues \cup {"in flight"}
             /\ calls' = <<>> /\ stack' = stack
             /\ heap' = heap /\ props' = props
             /\ currentState' = currentState]_vars

\* the call was made in a state that has a leave callback registered and
\* that permits the target; it threw and no callback was invoked
C32_Witness ==
    /\ stack = <<>>
    /\ last.op = "transitTo" /\ last.out = "TypeError"
    /\ last.name \in DeclaredStates(machine) /\ ChainBroken(last.name)
    /\ ~isInitialState(last.inst)
    /\ Permitted(last.inst, last.name)
    /\ onLeaveCbs[last.inst][currentState[last.inst]] # <<>>
    /\ calls = <<>>

\* C33: every transitTo call terminates when the callbacks terminate, also
\* for declarations whose parent links form a cycle: a call in flight
\* always comes to its end.
C33_EveryTransitToTerminates == (stack # <<>>) ~> (stack = <<>>)

\* a transitTo to the current state is refused, with nothing changed, unless
\* the state permits itself, and then it is accepted
SelfCallValidated ==
    \A i \in insts :
        (/\ last'.op = "transitTo" /\ last'.inst = i /\ last'.name = currentState[i]
         /\ ~Rejected(i)
         /\ currentState[i] \in DeclaredStates(machine) \cup {INITIAL}
         /\ \E a \in ArgLists : transitTo(i, currentState[i], a)) =>
            IF Includes(DeclaredNext(currentState[i]), currentState[i])
            THEN /\ last'.out = "in flight"
                 /\ Len(stack') = Len(stack) + 1
                 /\ Top'.prev = currentState[i] /\ Top'.target = currentState[i]
            ELSE /\ last'.out = InvalidTransition
                 /\ heap' = heap /\ props' = props /\ currentState' = currentState
                 /\ stack' = stack /\ calls' = <<>>

\* in a transition from a state to itself the leave callbacks come first
\* and are given the target, the enter callbacks are given the target as
\* the previous state
SelfCallbacksGetTarget ==
    (stack # <<>> /\ Top.prev = Top.target /\ InvokeCallback) =>
        /\ calls'[Len(calls')].args[1] = Top.target
        /\ calls'[Len(calls')].phase = "leave" => PhaseCalls("enter") = <<>>

\* a transition from a state to itself returns no error and leaves the
\* state current and the props equal to its resolved overlay
SelfReturnResolved ==
    (stack # <<>> /\ Top.prev = Top.target /\ Return) =>
        /\ last'.out = NoError
        /\ currentState'[Top.inst] = Top.target
        /\ heap'[props[Top.inst]] = Resolved(Top.target)

\* C34: a self-transition is validated like any other: it returns
\* InvalidTransition and changes nothing unless the current state permits
\* itself; when it does the call succeeds, the leave callbacks are given
\* the target and the enter callbacks after them are given the target as
\* the previous state, and the props are left equal to the resolved overlay
\* of the state.
C34_SelfTransitionIsValidatedLikeAnyOther ==
    [][SelfCallValidated /\ SelfCallbacksGetTarget /\ SelfReturnResolved]_vars

\* C35: can() and transitTo() agree: in a state where can(X) is false a
\* top-level transitTo(X) returns one of the two error values and changes
\* nothing; where can(X) is true and X is a declared state whose parents
\* are declared, a top-level transitTo(X) is accepted, and when it returns
\* it returns no error with X the current state.
C35_CanAndTransitToAgree ==
    [][/\ \A i \in insts, X \in Names(machine) :
             (/\ last'.op = "transitTo" /\ last'.inst = i /\ last'.name = X
              /\ stack = <<>>
              /\ isInitialState(i) \/ HasMetadata(machine, currentState[i])
              /\ \E a \in ArgLists : transitTo(i, X, a)) =>
                 IF ~can(i, X)
                 THEN /\ last'.out \in {InvalidTransition, StateNotRegistered}
                      /\ heap' = heap /\ props' = props
                      /\ currentState' = currentState /\ stack' = stack
                 ELSE (X \in DeclaredStates(machine) /\ ~ChainBroken(X)) =>
                         (last'.out = "in flight" /\ Top'.target = X)
       /\ (Len(stack) = 1 /\ Return) =>
             (last'.out = NoError /\ currentState'[Top.inst] = Top.target)]_vars

QueryOps == {"currentState", "is", "can", "transitions"}

\* C36: the queries currentState, is, can and transitions change nothing:
\* a call of one of them leaves the current state, the props, the snapshot,
\* the enter and leave callback lists, the flag and the declarations as
\* they are, and invokes no callback.
C36_QueriesChangeNothing ==
    [][(/\ last'.op \in QueryOps
        /\ \E i \in insts, s \in Names(machine) \cup {""} :
              Query(i, last'.op, s)) =>
          /\ currentState' = currentState
          /\ props' = props /\ initialState' = initialState /\ heap' = heap
          /\ onEnterCbs' = onEnterCbs /\ onLeaveCbs' = onLeaveCbs
          /\ transitioning' = transitioning
          /\ machine' = machine
          /\ calls' = calls /\ stack' = stack]_vars

\* a callback of a transition out of a state other than 'initial' has
\* asked is() about another state, with callbacks registered, and is still
\* running
C36_Witness ==
    /\ stack # <<>> /\ Top.inCb
    /\ last.op = "is" /\ last.out = FALSE
    /\ currentState[last.inst] # INITIAL
    /\ transitioning[last.inst]
    /\ calls # <<>>

\* the props read from instance j
LiveProps(j) == heap[props[j]]

\* C37: the live props of an instance are changed only by the successful
\* transitions of that instance: the merge step of a transitTo of one
\* instance leaves the props read from every other instance as they were,
\* also when both were constructed from the same props object.
C37_PropsChangeOnlyByOwnTransitions ==
    [][\A j \in insts :
          LiveProps(j)' # LiveProps(j) =>
             (stack # <<>> /\ Top.inst = j /\ ApplyStates)]_vars

\* no transitTo of instance b is in flight
NotInFlight(b) == \A n \in 1..Len(stack) : stack[n].inst # b

\* what a transitTo that is validated and executed normally answers at once
Normally(b, s) ==
    IF Outcome(b, s) \in {InvalidTransition, StateNotRegistered}
    THEN Outcome(b, s) ELSE "in flight"

\* C38: the re-entrancy guard is per instance: a transitTo that a callback
\* of machine A makes on another machine B, of which no transitTo is in
\* flight, is never rejected as recursive; it is validated and executed as
\* at top level, it leaves the call of A as it is, and the call of A, when
\* it returns, has made A's target the current state of A.
C38_GuardIsPerInstance ==
    [][/\ \A a \in insts, b \in insts :
             (/\ a # b
              /\ stack # <<>> /\ Top.inst = a /\ Top.inCb
              /\ NotInFlight(b)
              /\ last'.op = "transitTo" /\ last'.inst = b
              /\ \E s \in TwoNames : transitTo(b, s, <<>>)) =>
                 /\ last'.out # RecursiveTransition
                 /\ last'.out = Normally(b, last'.name)
                 /\ stack'[Len(stack)] = Top
                 /\ currentState'[a] = currentState[a]
       /\ (stack # <<>> /\ Return) => currentState'[Top.inst] = Top.target]_vars

\* C39: the declarations are scoped to the machine type: a defineState on
\* one type leaves what getState gives for every state name of every other
\* type as it was, also for a name both types declare.
C39_DeclarationsAreScopedToTheType ==
    [][\A t \in RegistryTypes :
          (/\ last'.op = "defineState" /\ last'.out.target = t
           /\ \E s \in RegistryNames, p \in RegistryParents, to \in RegistryTo :
                 defineState(t, s, p, to)) =>
             \A u \in RegistryTypes \ {t}, s \in RegistryNames :
                 Got(statesByMachineStore', u, s) = Got(statesByMachineStore, u, s)]_vars

\* both types have declared a state of the same name, differently, and the
\* last defineState was for that name on one of them
C39_Witness ==
    /\ last.op = "defineState"
    /\ DOMAIN statesByMachineStore = RegistryTypes
    /\ \A t \in RegistryTypes : last.name \in DOMAIN statesByMachineStore[t]
    /\ \E t \in RegistryTypes :
          /\ last.out.target # t
          /\ statesByMachineStore[t][last.name] #
                statesByMachineStore[last.out.target][last.name]

\* C40: getState for a pair (machine type, state name) that was never
\* declared, also for a type with no declaration at all, gives undefined
\* and does not throw.
C40_UndeclaredGivesUndefined ==
    [][\A t \in RegistryTypes, s \in RegistryNames :
          (/\ last'.op = "getState" /\ last'.out.target = t /\ last'.name = s
           /\ getState(t, s)
           /\ (t \notin DOMAIN statesByMachineStore
               \/ s \notin DOMAIN statesByMachineStore[t])) =>
             last'.out.status = "undefined"]_vars

====
